---- MODULE Spec2Model ----
(***************************************************************************)
(* Model of the analyze_reviews tool of src/server.js: the review fetch,   *)
(* the per-review normalisation (analyzeSentiment, extractKeywords) and    *)
(* the aggregation into the analysis report.                               *)
(*                                                                         *)
(* Text is a sequence of one-character strings.  A JavaScript object used  *)
(* as a table is a sequence of <<key, value>> pairs in own-property order  *)
(* (integer-index keys in ascending numeric order first, then the other    *)
(* keys in insertion order), which is the order Object.entries,            *)
(* Object.keys and JSON.stringify enumerate it in.                         *)
(***************************************************************************)
EXTENDS Integers, Sequences, FiniteSets, TLC

\* ------------------------------------------------------------------------
\* Bounds of the model
\* ------------------------------------------------------------------------
MaxNum == 3

MaxReviews == 3

MaxTextLen == 14

\* ------------------------------------------------------------------------
\* Characters
\* ------------------------------------------------------------------------
LowerLetters ==
    << "a","b","c","d","e","f","g","h","i","j","k","l","m",
       "n","o","p","q","r","s","t","u","v","w","x","y","z" >>

UpperLetters ==
    << "A","B","C","D","E","F","G","H","I","J","K","L","M",
       "N","O","P","Q","R","S","T","U","V","W","X","Y","Z" >>

DigitChars == << "0","1","2","3","4","5","6","7","8","9" >>

Range(s) == { s[i] : i \in DOMAIN s }

UpperChars == Range(UpperLetters)

Digits == Range(DigitChars)

\* the class \w of the regular expression: letters, digits and underscore
WordChars ==
    Range(LowerLetters) \cup UpperChars \cup Digits \cup {"_"}

\* String.prototype.toLowerCase, one character
LowerChar(c) ==
    IF c \in UpperChars
    THEN LowerLetters[CHOOSE i \in DOMAIN UpperLetters : UpperLetters[i] = c]
    ELSE c

toLowerCase(s) == [i \in DOMAIN s |-> LowerChar(s[i])]

\* ------------------------------------------------------------------------
\* Lexicons
\* ------------------------------------------------------------------------
positiveWords ==
    { <<"g","o","o","d">>, <<"g","r","e","a","t">>, <<"e","x","c","e","l","l","e","n","t">>, <<"a","w","e","s","o","m","e">>,
      <<"a","m","a","z","i","n","g">>, <<"l","o","v","e">>, <<"b","e","s","t">>, <<"p","e","r","f","e","c","t">>,
      <<"f","a","n","t","a","s","t","i","c">>, <<"w","o","n","d","e","r","f","u","l">>, <<"h","a","p","p","y">>, <<"e","a","s","y">>,
      <<"h","e","l","p","f","u","l">>, <<"r","e","c","o","m","m","e","n","d">>, <<"r","e","c","o","m","m","e","n","d","e","d">>, <<"n","i","c","e">>,
      <<"b","e","a","u","t","i","f","u","l">>, <<"f","u","n">>, <<"e","n","j","o","y">>, <<"w","o","r","t","h">>,
      <<"f","a","v","o","r","i","t","e">>, <<"i","m","p","r","o","v","e","m","e","n","t">>, <<"i","m","p","r","o","v","e","d">>, <<"b","e","t","t","e","r">>,
      <<"u","s","e","f","u","l">> }

negativeWords ==
    { <<"b","a","d">>, <<"t","e","r","r","i","b","l","e">>, <<"a","w","f","u","l">>, <<"h","o","r","r","i","b","l","e">>,
      <<"p","o","o","r">>, <<"w","o","r","s","t">>, <<"w","a","s","t","e">>, <<"u","s","e","l","e","s","s">>,
      <<"d","i","f","f","i","c","u","l","t">>, <<"h","a","t","e">>, <<"c","r","a","s","h">>, <<"b","u","g">>,
      <<"p","r","o","b","l","e","m">>, <<"i","s","s","u","e">>, <<"d","i","s","a","p","p","o","i","n","t","i","n","g">>, <<"d","i","s","a","p","p","o","i","n","t","e","d">>,
      <<"f","i","x">>, <<"e","r","r","o","r">>, <<"f","a","i","l">>, <<"f","a","i","l","s">>,
      <<"w","r","o","n","g">>, <<"f","r","u","s","t","r","a","t","i","n","g">>, <<"s","l","o","w">>, <<"e","x","p","e","n","s","i","v","e">>,
      <<"a","n","n","o","y","i","n","g">>, <<"b","o","r","i","n","g">> }

stopWords ==
    { <<"i">>, <<"m","e">>, <<"m","y">>, <<"m","y","s","e","l","f">>,
      <<"w","e">>, <<"o","u","r">>, <<"o","u","r","s">>, <<"o","u","r","s","e","l","v","e","s">>,
      <<"y","o","u">>, <<"y","o","u","r">>, <<"y","o","u","r","s">>, <<"y","o","u","r","s","e","l","f">>,
      <<"y","o","u","r","s","e","l","v","e","s">>, <<"h","e">>, <<"h","i","m">>, <<"h","i","s">>,
      <<"h","i","m","s","e","l","f">>, <<"s","h","e">>, <<"h","e","r">>, <<"h","e","r","s">>,
      <<"h","e","r","s","e","l","f">>, <<"i","t">>, <<"i","t","s">>, <<"i","t","s","e","l","f">>,
      <<"t","h","e","y">>, <<"t","h","e","m">>, <<"t","h","e","i","r">>, <<"t","h","e","i","r","s">>,
      <<"t","h","e","m","s","e","l","v","e","s">>, <<"w","h","a","t">>, <<"w","h","i","c","h">>, <<"w","h","o">>,
      <<"w","h","o","m">>, <<"t","h","i","s">>, <<"t","h","a","t">>, <<"t","h","e","s","e">>,
      <<"t","h","o","s","e">>, <<"a","m">>, <<"i","s">>, <<"a","r","e">>,
      <<"w","a","s">>, <<"w","e","r","e">>, <<"b","e">>, <<"b","e","e","n">>,
      <<"b","e","i","n","g">>, <<"h","a","v","e">>, <<"h","a","s">>, <<"h","a","d">>,
      <<"h","a","v","i","n","g">>, <<"d","o">>, <<"d","o","e","s">>, <<"d","i","d">>,
      <<"d","o","i","n","g">>, <<"a">>, <<"a","n">>, <<"t","h","e">>,
      <<"a","n","d">>, <<"b","u","t">>, <<"i","f">>, <<"o","r">>,
      <<"b","e","c","a","u","s","e">>, <<"a","s">>, <<"u","n","t","i","l">>, <<"w","h","i","l","e">>,
      <<"o","f">>, <<"a","t">>, <<"b","y">>, <<"f","o","r">>,
      <<"w","i","t","h">>, <<"a","b","o","u","t">>, <<"a","g","a","i","n","s","t">>, <<"b","e","t","w","e","e","n">>,
      <<"i","n","t","o">>, <<"t","h","r","o","u","g","h">>, <<"d","u","r","i","n","g">>, <<"b","e","f","o","r","e">>,
      <<"a","f","t","e","r">>, <<"a","b","o","v","e">>, <<"b","e","l","o","w">>, <<"t","o">>,
      <<"f","r","o","m">>, <<"u","p">>, <<"d","o","w","n">>, <<"i","n">>,
      <<"o","u","t">>, <<"o","n">>, <<"o","f","f">>, <<"o","v","e","r">>,
      <<"u","n","d","e","r">>, <<"a","g","a","i","n">>, <<"f","u","r","t","h","e","r">>, <<"t","h","e","n">>,
      <<"o","n","c","e">>, <<"h","e","r","e">>, <<"t","h","e","r","e">>, <<"w","h","e","n">>,
      <<"w","h","e","r","e">>, <<"w","h","y">>, <<"h","o","w">>, <<"a","l","l">>,
      <<"a","n","y">>, <<"b","o","t","h">>, <<"e","a","c","h">>, <<"f","e","w">>,
      <<"m","o","r","e">>, <<"m","o","s","t">>, <<"o","t","h","e","r">>, <<"s","o","m","e">>,
      <<"s","u","c","h">>, <<"n","o">>, <<"n","o","r">>, <<"n","o","t">>,
      <<"o","n","l","y">>, <<"o","w","n">>, <<"s","a","m","e">>, <<"s","o">>,
      <<"t","h","a","n">>, <<"t","o","o">>, <<"v","e","r","y">>, <<"s">>,
      <<"t">>, <<"c","a","n">>, <<"w","i","l","l">>, <<"j","u","s","t">>,
      <<"d","o","n">>, <<"s","h","o","u","l","d">>, <<"n","o","w">>, <<"a","p","p">> }

bugKeywords ==
    << <<"b","u","g">>, <<"c","r","a","s","h">>, <<"f","r","e","e","z","e","s">>, <<"f","r","o","z","e","n">>,
       <<"s","t","u","c","k">>, <<"e","r","r","o","r">> >>

pricingKeywords ==
    << <<"p","r","i","c","e">>, <<"c","o","s","t">>, <<"e","x","p","e","n","s","i","v","e">>, <<"c","h","e","a","p">>,
       <<"f","r","e","e">>, <<"s","u","b","s","c","r","i","p","t","i","o","n">>, <<"p","a","y","m","e","n","t">> >>

uxKeywords ==
    << <<"i","n","t","e","r","f","a","c","e">>, <<"d","e","s","i","g","n">>, <<"l","a","y","o","u","t">>, <<"u","g","l","y">>,
       <<"b","e","a","u","t","i","f","u","l">>, <<"e","a","s","y">>, <<"d","i","f","f","i","c","u","l","t">>, <<"c","o","n","f","u","s","i","n","g">> >>
\* ------------------------------------------------------------------------
\* Values
\* ------------------------------------------------------------------------
\* a JavaScript string value, or an absent one (undefined / null)
Str(chars) == [present |-> TRUE, chars |-> chars]

NoText == [present |-> FALSE, chars |-> <<>>]

\* !text : undefined, null and "" are falsy
Falsy(text) == ~text.present \/ text.chars = <<>>

\* ------------------------------------------------------------------------
\* Tokenizer: s.match(/\b(\w+)\b/g) || []
\* ------------------------------------------------------------------------
\* a match starts at a word character that follows no word character
MatchStarts(s) ==
    { i \in DOMAIN s : s[i] \in WordChars /\ (i = 1 \/ s[i - 1] \notin WordChars) }

\* \w+ is greedy: the match runs to the last word character of the run
MatchEnd(s, i) ==
    CHOOSE j \in i..Len(s) :
        /\ \A k \in i..j : s[k] \in WordChars
        /\ (j = Len(s) \/ s[j + 1] \notin WordChars)

\* the matches in the order of their position in s
MatchWords(s) ==
    LET starts == MatchStarts(s)
        start(n) == CHOOSE i \in starts : Cardinality({ j \in starts : j < i }) = n - 1
    IN  [n \in 1..Cardinality(starts) |-> SubSeq(s, start(n), MatchEnd(s, start(n)))]

\* words.forEach(word => { if (list.includes(word)) count++ })
RECURSIVE CountIncluded(_, _)
CountIncluded(words, list) ==
    IF words = <<>> THEN 0
    ELSE (IF Head(words) \in list THEN 1 ELSE 0) + CountIncluded(Tail(words), list)

\* ------------------------------------------------------------------------
\* analyzeSentiment
\* ------------------------------------------------------------------------
analyzeSentimentGe(text) ==
    IF Falsy(text) THEN "neutral"
    ELSE LET words == MatchWords(toLowerCase(text.chars))
             positiveCount == CountIncluded(words, positiveWords)
             negativeCount == CountIncluded(words, negativeWords)
         IN  IF positiveCount >= negativeCount * 2 THEN "positive"
             ELSE IF negativeCount >= positiveCount * 2 THEN "negative"
             ELSE IF positiveCount > negativeCount THEN "somewhat positive"
             ELSE IF negativeCount > positiveCount THEN "somewhat negative"
             ELSE "neutral"

analyzeSentiment(text) ==
    IF Falsy(text) THEN "neutral"
    ELSE LET words == MatchWords(toLowerCase(text.chars))
             positiveCount == CountIncluded(words, positiveWords)
             negativeCount == CountIncluded(words, negativeWords)
         IN  IF positiveCount > negativeCount * 2 THEN "positive"
             ELSE IF negativeCount > positiveCount * 2 THEN "negative"
             ELSE IF positiveCount > negativeCount THEN "somewhat positive"
             ELSE IF negativeCount > positiveCount THEN "somewhat negative"
             ELSE "neutral"

\* ------------------------------------------------------------------------
\* extractKeywords
\* ------------------------------------------------------------------------
\* words.filter(word => !stopWords.includes(word) && word.length >= 3)
RECURSIVE FilterKeywordsLen3(_)
FilterKeywordsLen3(words) ==
    IF words = <<>> THEN <<>>
    ELSE LET word == Head(words)
             rest == FilterKeywordsLen3(Tail(words))
         IN  IF word \notin stopWords /\ Len(word) >= 3
             THEN <<word>> \o rest
             ELSE rest

\* words.filter(word => !stopWords.includes(word) && word.length > 3)
RECURSIVE FilterKeywords(_)
FilterKeywords(words) ==
    IF words = <<>> THEN <<>>
    ELSE LET word == Head(words)
             rest == FilterKeywords(Tail(words))
         IN  IF word \notin stopWords /\ Len(word) > 3
             THEN <<word>> \o rest
             ELSE rest

extractKeywords(text) ==
    IF Falsy(text) THEN <<>>
    ELSE FilterKeywords(MatchWords(toLowerCase(text.chars)))

\* ------------------------------------------------------------------------
\* JavaScript objects used as tables
\* ------------------------------------------------------------------------
Min(a, b) == IF a < b THEN a ELSE b

DigitValue(c) == (CHOOSE i \in DOMAIN DigitChars : DigitChars[i] = c) - 1

\* numeric order of two canonical digit strings
DigitsLess(a, b) ==
    \/ Len(a) < Len(b)
    \/ /\ Len(a) = Len(b)
       /\ \E i \in DOMAIN a :
              /\ SubSeq(a, 1, i - 1) = SubSeq(b, 1, i - 1)
              /\ DigitValue(a[i]) < DigitValue(b[i])

\* largest integer index of an object: 2^32 - 2
MaxArrayIndex == << "4","2","9","4","9","6","7","2","9","4" >>

\* a property key that is a canonical integer index: such keys are
\* enumerated first, in ascending numeric order
IsArrayIndex(key) ==
    /\ key # <<>>
    /\ \A i \in DOMAIN key : key[i] \in Digits
    /\ (Len(key) > 1 => key[1] # "0")
    /\ ~DigitsLess(MaxArrayIndex, key)

ObjectKeys(obj) == [i \in DOMAIN obj |-> obj[i][1]]

ObjectEntries(obj) == obj

HasKey(obj, key) == \E i \in DOMAIN obj : obj[i][1] = key

\* obj[key] || 0
GetOrZero(obj, key) ==
    IF HasKey(obj, key)
    THEN obj[CHOOSE i \in DOMAIN obj : obj[i][1] = key][2]
    ELSE 0

\* number of leading entries that stay in front of a new key
InsertAfter(obj, key) ==
    IF IsArrayIndex(key)
    THEN Cardinality({ i \in DOMAIN obj :
                         IsArrayIndex(obj[i][1]) /\ DigitsLess(obj[i][1], key) })
    ELSE Len(obj)

\* obj[key] = val
SetKey(obj, key, val) ==
    IF HasKey(obj, key)
    THEN [i \in DOMAIN obj |-> IF obj[i][1] = key THEN <<key, val>> ELSE obj[i]]
    ELSE LET k == InsertAfter(obj, key)
         IN  SubSeq(obj, 1, k) \o << <<key, val>> >> \o SubSeq(obj, k + 1, Len(obj))

\* keys.forEach(keyword => { freq[keyword] = (freq[keyword] || 0) + 1 })
RECURSIVE CountInto(_, _)
CountInto(freq, keys) ==
    IF keys = <<>> THEN freq
    ELSE CountInto(SetKey(freq, Head(keys), GetOrZero(freq, Head(keys)) + 1), Tail(keys))

\* entries.reduce((obj, [key, value]) => { obj[key] = value; return obj }, {})
RECURSIVE FromEntries(_, _)
FromEntries(obj, entries) ==
    IF entries = <<>> THEN obj
    ELSE FromEntries(SetKey(obj, Head(entries)[1], Head(entries)[2]), Tail(entries))

\* entries.sort((a, b) => b[1] - a[1]): the sort is stable
InsertSorted(sorted, e) ==
    LET k == Cardinality({ i \in DOMAIN sorted : sorted[i][2] >= e[2] })
    IN  SubSeq(sorted, 1, k) \o <<e>> \o SubSeq(sorted, k + 1, Len(sorted))

RECURSIVE SortByCount(_)
SortByCount(entries) ==
    IF entries = <<>> THEN <<>>
    ELSE InsertSorted(SortByCount(SubSeq(entries, 1, Len(entries) - 1)),
                      entries[Len(entries)])

\* array.slice(0, n)
Slice(array, n) == SubSeq(array, 1, Min(n, Len(array)))

\* Object.entries(freq).sort(...).slice(0, n).reduce(...)
TopEntries(freq, n) == FromEntries(<<>>, Slice(SortByCount(ObjectEntries(freq)), n))

\* reviews.flatMap(review => review.keywords).forEach(keyword => ...):
\* the keywords of the first review are counted, then those of the rest
RECURSIVE CountKeywords(_, _)
CountKeywords(freq, processed) ==
    IF processed = <<>> THEN freq
    ELSE LET counted == CountInto(freq, Head(processed).keywords)
         IN  IF counted = <<>>
             THEN CountKeywords(<<>>, Tail(processed))
             ELSE CountKeywords(counted, Tail(processed))

\* array.filter(pred) for a set of retained positions
RECURSIVE FilterSeq(_, _, _)
FilterSeq(array, keep, i) ==
    IF i > Len(array) THEN <<>>
    ELSE (IF i \in keep THEN <<array[i]>> ELSE <<>>) \o FilterSeq(array, keep, i + 1)

\* kw.includes(word): substring containment
Includes(kw, word) ==
    \E k \in 0..(Len(kw) - Len(word)) : SubSeq(kw, k + 1, k + Len(word)) = word

\* "crashes crashes slow 2024"
TextCrashes ==
    Str(<<"c","r","a","s","h","e","s"," ","c","r","a","s","h","e","s"," ","s","l">> \o
        <<"o","w"," ","2","0","2","4">>)

\* "good good slow price"
TextMixedGood ==
    Str(<<"g","o","o","d"," ","g","o","o","d"," ","s","l","o","w"," ","p","r","i">> \o
        <<"c","e">>)

\* "slow slow good"
TextMixedSlow ==
    Str(<<"s","l","o","w"," ","s","l","o","w"," ","g","o","o","d">>)

\* "great waste worst awful"
TextWaste ==
    Str(<<"g","r","e","a","t"," ","w","a","s","t","e"," ","w","o","r","s","t"," ">> \o
        <<"a","w","f","u","l">>)

\* "slow menu font icon sync lags maps chat feed live mode dark tabs link page load save edit undo zoom view bugs"
TextManyIssues ==
    Str(<<"s","l","o","w"," ","m","e","n","u"," ","f","o","n","t"," ","i","c","o">> \o
        <<"n"," ","s","y","n","c"," ","l","a","g","s"," ","m","a","p","s"," ","c">> \o
        <<"h","a","t"," ","f","e","e","d"," ","l","i","v","e"," ","m","o","d","e">> \o
        <<" ","d","a","r","k"," ","t","a","b","s"," ","l","i","n","k"," ","p","a">> \o
        <<"g","e"," ","l","o","a","d"," ","s","a","v","e"," ","e","d","i","t"," ">> \o
        <<"u","n","d","o"," ","z","o","o","m"," ","v","i","e","w"," ","b","u","g">> \o
        <<"s">>)

\* "Great menu font icon sync lags maps chat feed live mode dark, easy. GREAT!"
TextManyPraise ==
    Str(<<"G","r","e","a","t"," ","m","e","n","u"," ","f","o","n","t"," ","i","c">> \o
        <<"o","n"," ","s","y","n","c"," ","l","a","g","s"," ","m","a","p","s"," ">> \o
        <<"c","h","a","t"," ","f","e","e","d"," ","l","i","v","e"," ","m","o","d">> \o
        <<"e"," ","d","a","r","k",","," ","e","a","s","y","."," ","G","R","E","A">> \o
        <<"T","!">>)
\* ------------------------------------------------------------------------
\* Scores and dates
\* ------------------------------------------------------------------------
\* a score is a number, kept in tenths (45 is 4.5), or undefined
Num(tenths) == [kind |-> "number", tenths |-> tenths]

NoScore == [kind |-> "undefined", tenths |-> 0]

NaN == [nan |-> TRUE, int |-> 0]

\* Math.floor replaced by Math.round
MathRound(score) ==
    IF score.kind = "number" THEN [nan |-> FALSE, int |-> (score.tenths + 5) \div 10] ELSE NaN

\* Math.floor(score): NaN for undefined
MathFloor(score) ==
    IF score.kind = "number" THEN [nan |-> FALSE, int |-> score.tenths \div 10] ELSE NaN

\* a date field of a raw review: a day number, or undefined
Day(d) == [present |-> TRUE, day |-> d]

NoDate == [present |-> FALSE, day |-> 0]

\* new Date(value): Invalid Date for undefined
NewDate(value) ==
    IF value.present THEN [valid |-> TRUE, day |-> value.day] ELSE [valid |-> FALSE, day |-> 0]

\* length of the recency window, in days
RecentDays == 7

\* oneWeekAgo.setDate(oneWeekAgo.getDate() - 7)
OneWeekAgo(today) == [valid |-> TRUE, day |-> today - RecentDays]

\* a >= b on dates: false when either is an Invalid Date
DateGe(a, b) == a.valid /\ b.valid /\ a.day >= b.day

\* ------------------------------------------------------------------------
\* Aggregation
\* ------------------------------------------------------------------------
SentimentLabels ==
    << "positive", "somewhat positive", "neutral", "somewhat negative", "negative" >>

Labels == Range(SentimentLabels)

TopKeywordsLimit == 20

TopIssuesLimit == 10

TopSentimentLimit == 10

\* platform === 'android' ? review.date : review.updated
ReviewDate(platform, review) ==
    IF platform = "android" THEN review.date ELSE review.updated

\* text.toLowerCase() is called whatever the text is
NormalizeRaisesUnguarded(text) == ~text.present

\* analyzeSentiment and extractKeywords raise a TypeError when they reach
\* text.toLowerCase() with a text that is no string; both test !text first
NormalizeRaises(text) == ~Falsy(text) /\ ~text.present

\* the score is defaulted to 0 when the review has none
ProcessReviewScoreDefault(platform, review) ==
    [ id        |-> review.id,
      text      |-> review.text,
      score     |-> IF review.score.kind = "number" THEN review.score ELSE Num(0),
      sentiment |-> analyzeSentiment(review.text),
      keywords  |-> extractKeywords(review.text),
      date      |-> ReviewDate(platform, review) ]

ProcessReview(platform, review) ==
    [ id        |-> review.id,
      text      |-> review.text,
      score     |-> review.score,
      sentiment |-> analyzeSentiment(review.text),
      keywords  |-> extractKeywords(review.text),
      date      |-> ReviewDate(platform, review) ]

\* reviews.map(review => ...)
RECURSIVE ProcessedReviews(_, _)
ProcessedReviews(platform, raw) ==
    IF raw = <<>> THEN <<>>
    ELSE <<ProcessReview(platform, Head(raw))>> \o ProcessedReviews(platform, Tail(raw))

\* processedReviews.forEach(review => { sentimentCounts[review.sentiment]++ })
SentimentCounts(processed) ==
    [l \in Labels |->
        Cardinality({ i \in DOMAIN processed : processed[i].sentiment = l })]

\* the percentage rounded to a whole percent: toFixed(0)
PercentageWhole(count, total) ==
    IF total # 0 THEN 100 * ((2 * count * 100 + total) \div (2 * total)) ELSE 0

\* parseFloat(((count / total) * 100).toFixed(2)), in hundredths of a percent
Percentage(count, total) ==
    IF total # 0 THEN (2 * count * 10000 + total) \div (2 * total) ELSE 0

SentimentBreakdown(processed) ==
    [l \in Labels |->
        Percentage(SentimentCounts(processed)[l], Len(processed))]

\* counts a keyword once per review, however often the review repeats it
KeywordFrequencyPerReview(processed) ==
    CountKeywords(<<>>,
        [i \in DOMAIN processed |->
            [keywords |-> ObjectKeys(CountInto(<<>>, processed[i].keywords))]])

KeywordFrequency(processed) == CountKeywords(<<>>, processed)

HasTheme(triggers, freq) ==
    \E w \in DOMAIN triggers :
        \E k \in DOMAIN freq : Includes(ObjectKeys(freq)[k], triggers[w])

\* the theme rules look at the reported top keywords only
CommonThemesTop(freq) ==
    LET top == TopEntries(freq, TopKeywordsLimit)
    IN  (IF HasTheme(bugKeywords, top) THEN <<"Stability Issues">> ELSE <<>>)
        \o (IF HasTheme(pricingKeywords, top) THEN <<"Pricing Concerns">> ELSE <<>>)
        \o (IF HasTheme(uxKeywords, top) THEN <<"User Experience">> ELSE <<>>)

CommonThemes(freq) ==
    (IF HasTheme(bugKeywords, freq) THEN <<"Stability Issues">> ELSE <<>>)
    \o (IF HasTheme(pricingKeywords, freq) THEN <<"Pricing Concerns">> ELSE <<>>)
    \o (IF HasTheme(uxKeywords, freq) THEN <<"User Experience">> ELSE <<>>)

\* keeps every negative review, whatever its date
IsRecentNegativeAnyDate(review, today) ==
    review.sentiment = "negative" \/ review.sentiment = "somewhat negative"

IsRecentNegative(review, today) ==
    /\ DateGe(NewDate(review.date), OneWeekAgo(today))
    /\ (review.sentiment = "negative" \/ review.sentiment = "somewhat negative")

RecentNegativeReviews(processed, today) ==
    FilterSeq(processed, { i \in DOMAIN processed : IsRecentNegative(processed[i], today) }, 1)

RecentIssuesFrequency(processed, today) ==
    CountKeywords(<<>>, RecentNegativeReviews(processed, today))

\* the buckets counted from an object that starts empty: only the buckets
\* that some review falls into exist
RatingDistributionSparse(processed) ==
    LET count(b) ==
            Cardinality({ i \in DOMAIN processed :
                LET score == MathFloor(processed[i].score)
                IN  ~score.nan /\ score.int = b })
    IN  [b \in { x \in 1..5 : count(x) > 0 } |-> count(b)]

\* processedReviews.forEach(review => { ... ratingDistribution[score]++ })
RatingDistribution(processed) ==
    [b \in 1..5 |->
        Cardinality({ i \in DOMAIN processed :
            LET score == MathFloor(processed[i].score)
            IN  ~score.nan /\ score.int >= 1 /\ score.int <= 5 /\ score.int = b })]

\* r.keywords.includes(key)
KeywordsInclude(keywords, key) == \E k \in DOMAIN keywords : keywords[k] = key

\* accepts the 'somewhat' label of the same polarity as well
SentimentEntriesLoose(freq, processed, label) ==
    FilterSeq(ObjectEntries(freq),
        { e \in DOMAIN freq :
            \E i \in DOMAIN processed :
                /\ processed[i].sentiment \in {label, "somewhat " \o label}
                /\ KeywordsInclude(processed[i].keywords, freq[e][1]) }, 1)

\* entries.filter(([key]) => processedReviews.some(
\*     r => r.sentiment === label && r.keywords.includes(key)))
SentimentEntries(freq, processed, label) ==
    FilterSeq(ObjectEntries(freq),
        { e \in DOMAIN freq :
            \E i \in DOMAIN processed :
                /\ processed[i].sentiment = label
                /\ KeywordsInclude(processed[i].keywords, freq[e][1]) }, 1)

TopSentimentKeywords(freq, processed, label) ==
    FromEntries(<<>>,
        Slice(SortByCount(SentimentEntries(freq, processed, label)), TopSentimentLimit))

Report(platform, raw, today) ==
    LET processed == ProcessedReviews(platform, raw)
        freq == KeywordFrequency(processed)
    IN  [ kind                 |-> "report",
          platform             |-> platform,
          totalReviewsAnalyzed |-> Len(processed),
          sentimentBreakdown   |-> SentimentBreakdown(processed),
          keywordFrequency     |-> TopEntries(freq, TopKeywordsLimit),
          ratingDistribution   |-> RatingDistribution(processed),
          commonThemes         |-> CommonThemes(freq),
          recentIssues         |->
              TopEntries(RecentIssuesFrequency(processed, today), TopIssuesLimit),
          topPositiveKeywords  |-> TopSentimentKeywords(freq, processed, "positive"),
          topNegativeKeywords  |-> TopSentimentKeywords(freq, processed, "negative") ]

\* an exception anywhere between try (427) and catch (773): the analysis
\* raises when the normalisation of some review does
AnalysisRaises(raw) == \E i \in DOMAIN raw : NormalizeRaises(raw[i].text)

ErrorResult(platform) == [kind |-> "error", isError |-> TRUE, platform |-> platform]

NoResult == [kind |-> "none"]

\* ------------------------------------------------------------------------
\* Reviews the stores can deliver
\* ------------------------------------------------------------------------
\* processing time (new Date() of the analysis), as a day number
Times == {20}

Samples ==
    << [text |-> TextManyPraise, score |-> Num(50), day |-> Day(18)],
       [text |-> TextCrashes,    score |-> Num(10), day |-> Day(18)],
       [text |-> TextMixedGood,  score |-> Num(45), day |-> Day(10)],
       [text |-> TextMixedSlow,  score |-> Num(5),  day |-> Day(15)],
       [text |-> NoText,         score |-> NoScore, day |-> NoDate],
       [text |-> TextWaste,      score |-> Num(60), day |-> Day(10)],
       [text |-> TextManyIssues, score |-> Num(20), day |-> Day(13)] >>

\* a review as google-play-scraper returns it: the timestamp is in date
AndroidReview(i) ==
    [ id |-> i, text |-> Samples[i].text, score |-> Samples[i].score,
      date |-> Samples[i].day, updated |-> NoDate ]

\* a review as app-store-scraper returns it: the timestamp is in updated
IosReview(i) ==
    [ id |-> i, text |-> Samples[i].text, score |-> Samples[i].score,
      date |-> NoDate, updated |-> Samples[i].day ]

AndroidReviews == { AndroidReview(i) : i \in DOMAIN Samples }

IosReviews == { IosReview(i) : i \in DOMAIN Samples }

StoreReviews(p) == IF p = "android" THEN AndroidReviews ELSE IosReviews

\* the samples the stores hold while the fetch itself is explored: a store
\* delivers its reviews in a fixed order, the n-th of them with id n
FetchSamples == << 2, 5 >>

FetchSampleAt(n) == FetchSamples[((n - 1) % Len(FetchSamples)) + 1]

StoreReview(p, n) ==
    IF p = "android"
    THEN [AndroidReview(FetchSampleAt(n)) EXCEPT !.id = n]
    ELSE [IosReview(FetchSampleAt(n)) EXCEPT !.id = n]

\* the k reviews the store delivers after the first offset ones
RECURSIVE StoreSlice(_, _, _)
StoreSlice(p, offset, k) ==
    IF k = 0 THEN <<>>
    ELSE StoreSlice(p, offset, k - 1) \o << StoreReview(p, offset + k) >>

\* the reviews google-play-scraper can deliver for a request of n reviews
AndroidData(n) == { StoreSlice("android", 0, k) : k \in 0..Min(n, MaxReviews) }

\* largest page the App Store delivers in the model
MaxPageLen == 2

\* the non-empty pages app-store-scraper can deliver after offset reviews
IosPages(offset) == { StoreSlice("ios", offset, k) : k \in 1..MaxPageLen }

\* a num above what ten pages hold and above the Play Store limit
LargeNum == 1001

\* the values of the argument num
Nums == 0..MaxNum \cup {LargeNum}

SeqsUpTo(S, n) == UNION { [1..k -> S] : k \in 0..n }

\* ------------------------------------------------------------------------
\* State
\* ------------------------------------------------------------------------
VARIABLES
    pc,           \* position of the analyze_reviews callback
    platform,     \* argument platform
    num,          \* argument num
    requested,    \* android: the num passed to memoizedGplay.reviews
    numericId,    \* /^\d+$/.test(appId)
    page,         \* iOS page loop: next page to request
    allReviews,   \* iOS page loop: reviews collected so far
    reviews,      \* the raw collection handed to the analysis
    now,          \* processing time of the analysis
    result,       \* value returned to the caller
    text,         \* a review text being normalised on its own
    textDone,     \* whether textSentiment / textKeywords belong to text
    textSentiment,
    textKeywords

vars == << pc, platform, num, requested, numericId, page, allReviews, reviews,
           now, result, text, textDone, textSentiment, textKeywords >>

toolVars ==
    << pc, platform, num, requested, numericId, page, allReviews, reviews, now, result >>

textVars == << text, textDone, textSentiment, textKeywords >>

\* App Store only allows 10 pages
MaxPages == 10

\* Math.min(num, 1000)
AndroidMax == 1000

\* the whole of num is requested
AndroidRequestAll(n) == n

\* num: Math.min(num, 1000)
AndroidRequest(n) == Min(n, AndroidMax)

ToolInit ==
    /\ pc = "idle"
    /\ platform = "android"
    /\ num = 0
    /\ requested = 0
    /\ numericId = TRUE
    /\ page = 1
    /\ allReviews = <<>>
    /\ reviews = <<>>
    /\ now = 0
    /\ result = NoResult

TextInit ==
    /\ text = NoText
    /\ textDone = FALSE
    /\ textSentiment = "neutral"
    /\ textKeywords = <<>>

Init == ToolInit /\ TextInit

\* ------------------------------------------------------------------------
\* analyze_reviews
\* ------------------------------------------------------------------------
\* the loop goes on until num reviews are collected, whatever the page
LoopContinuesAnyPage(all, n, pg) == Len(all) < n

\* while (allReviews.length < num && page <= 10)
LoopContinues(all, n, pg) == Len(all) < n /\ pg <= MaxPages

\* the analysis of the collected reviews, up to the return of the report
Analyze(p, raw) ==
    \E today \in Times :
        /\ now' = today
        /\ reviews' = raw
        /\ result' = IF AnalysisRaises(raw) THEN ErrorResult(p) ELSE Report(p, raw, today)
        /\ pc' = "done"

\* the iOS loop is left: reviews = allReviews.slice(0, num), then the analysis
LeaveLoop(p, all, n) == Analyze(p, Slice(all, n))

\* the next iteration of the iOS loop, or its end
NextIteration(p, all, n, pg, numeric) ==
    IF LoopContinues(all, n, pg)
    THEN /\ pc' = IF numeric THEN "iosPage" ELSE "iosLookup"
         /\ UNCHANGED << reviews, now, result >>
    ELSE LeaveLoop(p, all, n)

Invoke(p, n, numeric) ==
    /\ pc = "idle"
    /\ platform' = p
    /\ num' = n
    /\ requested' = IF p = "android" THEN AndroidRequest(n) ELSE 0
    /\ numericId' = numeric
    /\ page' = 1
    /\ allReviews' = <<>>
    /\ IF p = "android"
       THEN /\ pc' = "androidFetch"
            /\ UNCHANGED << reviews, now, result >>
       ELSE NextIteration(p, <<>>, n, 1, numeric)
    /\ UNCHANGED textVars

\* memoizedGplay.reviews resolves; data may be missing
AndroidFetchOk(data) ==
    /\ pc = "androidFetch"
    /\ Analyze(platform, data)
    /\ UNCHANGED << platform, num, requested, numericId, page, allReviews >>
    /\ UNCHANGED textVars

\* memoizedGplay.reviews rejects: the outer catch returns the error result
AndroidFetchFail ==
    /\ pc = "androidFetch"
    /\ result' = ErrorResult(platform)
    /\ pc' = "done"
    /\ UNCHANGED << platform, num, requested, numericId, page, allReviews, reviews, now >>
    /\ UNCHANGED textVars

\* memoizedAppStore.app resolves
IosLookupOk ==
    /\ pc = "iosLookup"
    /\ pc' = "iosPage"
    /\ UNCHANGED << platform, num, requested, numericId, page, allReviews, reviews, now, result >>
    /\ UNCHANGED textVars

\* memoizedAppStore.app rejects: break
IosLookupFail ==
    /\ pc = "iosLookup"
    /\ LeaveLoop(platform, allReviews, num)
    /\ UNCHANGED << platform, num, requested, numericId, page, allReviews >>
    /\ UNCHANGED textVars

\* memoizedAppStore.reviews resolves with a non-empty page
IosPageOk(pageReviews) ==
    /\ pc = "iosPage"
    /\ pageReviews # <<>>
    /\ allReviews' = allReviews \o pageReviews
    /\ page' = page + 1
    /\ NextIteration(platform, allReviews', num, page', numericId)
    /\ UNCHANGED << platform, num, requested, numericId >>
    /\ UNCHANGED textVars

\* memoizedAppStore.reviews resolves with no page or an empty one: break
IosPageEmpty ==
    /\ pc = "iosPage"
    /\ LeaveLoop(platform, allReviews, num)
    /\ UNCHANGED << platform, num, requested, numericId, page, allReviews >>
    /\ UNCHANGED textVars

\* memoizedAppStore.reviews rejects: break
IosPageFail ==
    /\ pc = "iosPage"
    /\ LeaveLoop(platform, allReviews, num)
    /\ UNCHANGED << platform, num, requested, numericId, page, allReviews >>
    /\ UNCHANGED textVars

\* the callback has returned; the server waits for the next request
Return ==
    /\ pc = "done"
    /\ pc' = "idle"
    /\ platform' = "android"
    /\ num' = 0
    /\ requested' = 0
    /\ numericId' = TRUE
    /\ page' = 1
    /\ allReviews' = <<>>
    /\ reviews' = <<>>
    /\ now' = 0
    /\ result' = NoResult
    /\ UNCHANGED textVars

Next ==
    \/ \E p \in {"android", "ios"}, n \in Nums, numeric \in BOOLEAN :
           Invoke(p, n, numeric)
    \/ \E data \in AndroidData(requested) : AndroidFetchOk(data)
    \/ AndroidFetchFail
    \/ IosLookupOk
    \/ IosLookupFail
    \/ \E pageReviews \in IosPages(Len(allReviews)) : IosPageOk(pageReviews)
    \/ IosPageEmpty
    \/ IosPageFail
    \/ Return

Spec == Init /\ [][Next]_vars

\* ------------------------------------------------------------------------
\* Normalising one review text on its own
\* ------------------------------------------------------------------------
Chunks ==
    { <<"g","o","o","d"," ">>,
      <<"b","a","d"," ">>,
      <<"B","U","G",",">>,
      <<"u","n">>,
      <<"t","h","i","s"," ">>,
      <<"2","0","2","4"," ">>,
      <<"e","a","s","y","_">> }

\* the text becomes the empty string, or grows by one chunk
EditText(chunk) ==
    /\ Len(text.chars) + Len(chunk) <= MaxTextLen
    /\ text' = Str(text.chars \o chunk)
    /\ textDone' = FALSE
    /\ UNCHANGED << textSentiment, textKeywords >>
    /\ UNCHANGED toolVars

\* sentiment and keywords of the text, as ProcessReview computes them
NormalizeText ==
    /\ ~textDone
    /\ textSentiment' = analyzeSentiment(text)
    /\ textKeywords' = extractKeywords(text)
    /\ textDone' = TRUE
    /\ UNCHANGED text
    /\ UNCHANGED toolVars

NextText ==
    \/ \E chunk \in Chunks \cup {<<>>} : EditText(chunk)
    \/ NormalizeText

SpecText == Init /\ [][NextText]_vars

\* ------------------------------------------------------------------------
\* The analysis on its own: the fetch has delivered any finished collection
\* of a store's reviews, and the analysis is about to start
\* ------------------------------------------------------------------------
InitReport ==
    /\ pc = "fetched"
    /\ platform \in {"android", "ios"}
    /\ reviews \in SeqsUpTo(StoreReviews(platform), MaxReviews)
    /\ num = Len(reviews)
    /\ requested = 0
    /\ numericId = TRUE
    /\ page = 1
    /\ allReviews = <<>>
    /\ now = 0
    /\ result = NoResult
    /\ TextInit

AnalyzeReviews ==
    /\ pc = "fetched"
    /\ Analyze(platform, reviews)
    /\ UNCHANGED << platform, num, requested, numericId, page, allReviews >>
    /\ UNCHANGED textVars

NextReport ==
    \/ AnalyzeReviews
    \/ Return

SpecReport == InitReport /\ [][NextReport]_vars

\* ------------------------------------------------------------------------
\* The analysis of collections of reviews with missing fields
\* ------------------------------------------------------------------------
\* reviews without text, with an empty text, without score or without
\* timestamp, and one complete review
SparseSamples ==
    << [text |-> NoText,      score |-> NoScore, day |-> NoDate],
       [text |-> Str(<<>>),   score |-> NoScore, day |-> Day(18)],
       [text |-> NoText,      score |-> Num(40), day |-> Day(18)],
       [text |-> Str(<<>>),   score |-> Num(40), day |-> NoDate],
       [text |-> TextCrashes, score |-> NoScore, day |-> Day(18)] >>

SparseReview(p, i) ==
    [ id      |-> i,
      text    |-> SparseSamples[i].text,
      score   |-> SparseSamples[i].score,
      date    |-> IF p = "android" THEN SparseSamples[i].day ELSE NoDate,
      updated |-> IF p = "android" THEN NoDate ELSE SparseSamples[i].day ]

SparseReviews(p) == { SparseReview(p, i) : i \in DOMAIN SparseSamples }

InitSparse ==
    /\ pc = "fetched"
    /\ platform \in {"android", "ios"}
    /\ reviews \in SeqsUpTo(SparseReviews(platform), MaxReviews)
    /\ num = Len(reviews)
    /\ requested = 0
    /\ numericId = TRUE
    /\ page = 1
    /\ allReviews = <<>>
    /\ now = 0
    /\ result = NoResult
    /\ TextInit

SpecSparse == InitSparse /\ [][NextReport]_vars

\* ========================================================================
\* Properties
\* ========================================================================
\* the word tokens of a text, read left to right one character at a time:
\* the maximal runs of word characters, lower-cased
RECURSIVE RunsOf(_, _, _, _)
RunsOf(s, i, cur, acc) ==
    IF i > Len(s)
    THEN IF cur = <<>> THEN acc ELSE Append(acc, cur)
    ELSE IF s[i] \in WordChars
         THEN RunsOf(s, i + 1, Append(cur, LowerChar(s[i])), acc)
         ELSE RunsOf(s, i + 1, <<>>, IF cur = <<>> THEN acc ELSE Append(acc, cur))

TokensOfText == RunsOf(text.chars, 1, <<>>, <<>>)

\* number of positions of ws that hold a member of lexicon
Occurrences(ws, lexicon) == Cardinality({ i \in DOMAIN ws : ws[i] \in lexicon })

\* the decision rule, first match wins
LabelByRule(p, n) ==
    CASE p > 2 * n -> "positive"
      [] ~(p > 2 * n) /\ n > 2 * p -> "negative"
      [] ~(p > 2 * n) /\ ~(n > 2 * p) /\ p > n -> "somewhat positive"
      [] ~(p > 2 * n) /\ ~(n > 2 * p) /\ ~(p > n) /\ n > p -> "somewhat negative"
      [] OTHER -> "neutral"

\* C1: for every non-absent text the sentiment is the label the decision
\* rule gives for the numbers of token occurrences found in the positive and
\* in the negative lexicon (repeats counted, whole tokens only), and it is
\* one of the five labels.
C1_SentimentByRule ==
    (textDone /\ text.present) =>
        /\ textSentiment = LabelByRule(Occurrences(TokensOfText, positiveWords),
                                       Occurrences(TokensOfText, negativeWords))
        /\ textSentiment \in Labels

\* a text with a repeated positive word and one negative word, classified
\* by the third rule, and one in which a lexicon word is only part of a token
C1_Witness ==
    /\ textDone
    /\ text.present
    /\ Occurrences(TokensOfText, positiveWords) = 2
    /\ Occurrences(TokensOfText, negativeWords) = 1
    /\ textSentiment = "somewhat positive"

\* C2: no keyword of a text has three characters or fewer or is a stop-word,
\* every keyword is a word token of the text, and every word token longer
\* than three characters that is no stop-word is a keyword.
C2_KeywordsFiltered ==
    textDone =>
        /\ \A k \in DOMAIN textKeywords :
               /\ Len(textKeywords[k]) > 3
               /\ textKeywords[k] \notin stopWords
               /\ textKeywords[k] \in Range(TokensOfText)
        /\ text.present =>
               \A i \in DOMAIN TokensOfText :
                   (Len(TokensOfText[i]) > 3 /\ TokensOfText[i] \notin stopWords)
                       => TokensOfText[i] \in Range(textKeywords)

\* a text with a three-letter token, a four-letter stop-word and a keyword
C2_Witness ==
    /\ textDone
    /\ \E i \in DOMAIN TokensOfText : Len(TokensOfText[i]) = 3
    /\ \E i \in DOMAIN TokensOfText :
           Len(TokensOfText[i]) > 3 /\ TokensOfText[i] \in stopWords
    /\ textKeywords # <<>>

\* ------------------------------------------------------------------------
\* Properties of the report
\* ------------------------------------------------------------------------
\* the analysis has returned its report
Reported == pc = "done" /\ result.kind = "report"

\* the keywords and the sentiment of the i-th review of the collection
RECURSIVE KeywordLists(_)
KeywordLists(raw) ==
    IF raw = <<>> THEN <<>>
    ELSE <<extractKeywords(Head(raw).text)>> \o KeywordLists(Tail(raw))

RECURSIVE Sentiments(_)
Sentiments(raw) ==
    IF raw = <<>> THEN <<>>
    ELSE <<analyzeSentiment(Head(raw).text)>> \o Sentiments(Tail(raw))

\* number of times keyword kw occurs in the given keyword lists
OccurrencesIn(kw, lists) ==
    Cardinality(UNION { { <<i, j>> : j \in { j \in DOMAIN lists[i] : lists[i][j] = kw } } :
                        i \in DOMAIN lists })

\* number of keyword lists in which kw occurs
ListsContaining(kw, lists) ==
    Cardinality({ i \in DOMAIN lists : kw \in Range(lists[i]) })

SumOverLabels(f) ==
    f["positive"] + f["somewhat positive"] + f["neutral"]
        + f["somewhat negative"] + f["negative"]

Abs(x) == IF x < 0 THEN -x ELSE x

\* C4: with at least one review the five percentages (in hundredths of a
\* percent) sum to 100.00 up to the rounding of the five terms, each being
\* the share of the reviews of its label rounded to two decimals, and the
\* reviews are partitioned by label; with no review all five are 0.
C4_PercentagesSumTo100 ==
    Reported =>
        LET total == Len(reviews)
            labels == Sentiments(reviews)
            count == [l \in Labels |->
                         Cardinality({ i \in DOMAIN labels : labels[i] = l })]
            pct == result.sentimentBreakdown
        IN  /\ DOMAIN pct = Labels
            /\ SumOverLabels(count) = total
            /\ total > 0 =>
                   /\ Abs(SumOverLabels(pct) - 10000) <= 2
                   /\ \A l \in Labels :
                          2 * Abs(pct[l] * total - count[l] * 10000) <= total
            /\ total = 0 => \A l \in Labels : pct[l] = 0

\* a report on three reviews of three labels: 33.33 + 33.33 + 33.33
C4_Witness ==
    /\ Reported
    /\ Len(reviews) = 3
    /\ SumOverLabels(result.sentimentBreakdown) = 9999

\* floor(score) of the i-th review is the bucket b
FloorsTo(i, b) ==
    /\ reviews[i].score.kind = "number"
    /\ b * 10 <= reviews[i].score.tenths
    /\ reviews[i].score.tenths < (b + 1) * 10

OutOfRange(i) == \A b \in 1..5 : ~FloorsTo(i, b)

\* C5: bucket b of the rating distribution counts the reviews whose score
\* floors to b; the buckets sum to at most the number of reviews, and to
\* less when the score of a review is absent or floors outside 1..5.
C5_RatingBuckets ==
    Reported =>
        LET dist == result.ratingDistribution
            sum == dist[1] + dist[2] + dist[3] + dist[4] + dist[5]
        IN  /\ \A b \in 1..5 :
                   dist[b] = Cardinality({ i \in DOMAIN reviews : FloorsTo(i, b) })
            /\ sum <= Len(reviews)
            /\ (\E i \in DOMAIN reviews : OutOfRange(i)) => sum < Len(reviews)

\* a report on a review scored 4.5, one scored 0.5 and one without a score
C5_Witness ==
    /\ Reported
    /\ \E i \in DOMAIN reviews : reviews[i].score = Num(45)
    /\ \E i \in DOMAIN reviews : reviews[i].score = Num(5)
    /\ \E i \in DOMAIN reviews : reviews[i].score = NoScore
    /\ result.ratingDistribution = <<0, 0, 0, 1, 0>>

\* the keys of a table, and the keywords of some keyword lists
KeysOf(table) == { table[e][1] : e \in DOMAIN table }

KeywordsIn(lists) == UNION { Range(lists[i]) : i \in DOMAIN lists }

\* the entries are listed by non-increasing count
ListedByCount(table) ==
    \A x, y \in DOMAIN table : x < y => table[x][2] >= table[y][2]

\* no candidate left out of the table counts more than an entry of it
NoneLeftOutCountsMore(table, candidates, lists) ==
    \A kw \in candidates \ KeysOf(table) :
        \A e \in DOMAIN table : OccurrencesIn(kw, lists) <= table[e][2]

\* C6: the reported keyword frequency table has min(20, distinct keywords)
\* entries, lists them by non-increasing count, and leaves out no keyword
\* that counts more than one of its entries.
C6_TopKeywordsSorted ==
    Reported =>
        LET lists == KeywordLists(reviews)
            table == result.keywordFrequency
        IN  /\ Len(table) = Min(20, Cardinality(KeywordsIn(lists)))
            /\ ListedByCount(table)
            /\ NoneLeftOutCountsMore(table, KeywordsIn(lists), lists)

\* the date field of the i-th review on the platform of the request
DateOf(i) == IF platform = "android" THEN reviews[i].date ELSE reviews[i].updated

\* the i-th review is dated at most 7 days before the processing time
WithinLastWeek(i) ==
    /\ DateOf(i).present
    /\ DateOf(i).day <= now
    /\ now - DateOf(i).day <= 7

\* the keyword lists of the reviews, emptied for the reviews outside sel
RECURSIVE ListsFrom(_, _, _)
ListsFrom(lists, sel, i) ==
    IF i > Len(lists) THEN <<>>
    ELSE << IF i \in sel THEN lists[i] ELSE <<>> >> \o ListsFrom(lists, sel, i + 1)

ListsOf(lists, sel) == ListsFrom(lists, sel, 1)

\* the recent negative reviews
RecentNegative(labels) ==
    { i \in DOMAIN labels :
        WithinLastWeek(i) /\ labels[i] \in {"negative", "somewhat negative"} }

\* keyword a is met before keyword b when the lists are read in order
SeenBefore(a, b, lists) ==
    \E i \in DOMAIN lists : \E j \in DOMAIN lists[i] :
        /\ lists[i][j] = a
        /\ \A i2 \in DOMAIN lists : \A j2 \in DOMAIN lists[i2] :
               lists[i2][j2] = b => (i < i2 \/ (i = i2 /\ j < j2))

\* entries of equal count are listed in the order their keywords were met
TiesInDiscoveryOrder(table, lists) ==
    \A x, y \in DOMAIN table :
        (x < y /\ table[x][2] = table[y][2]) => SeenBefore(table[x][1], table[y][1], lists)

\* a candidate left out was met after every entry of the same count
TiesKeptInDiscoveryOrder(table, candidates, counted, lists) ==
    \A kw \in candidates \ KeysOf(table) :
        \A e \in DOMAIN table :
            OccurrencesIn(kw, counted) = table[e][2] => SeenBefore(table[e][1], kw, lists)

\* C7: in the four top-N tables keywords of equal count are kept and listed
\* in the order in which they were first met in the review sequence,
\* whatever the keyword looks like.
C7_TiesInDiscoveryOrder ==
    Reported =>
        LET lists == KeywordLists(reviews)
            recent == ListsOf(lists, RecentNegative(Sentiments(reviews)))
        IN  /\ TiesInDiscoveryOrder(result.keywordFrequency, lists)
            /\ TiesKeptInDiscoveryOrder(result.keywordFrequency, KeywordsIn(lists), lists, lists)
            /\ TiesInDiscoveryOrder(result.recentIssues, recent)
            /\ TiesKeptInDiscoveryOrder(result.recentIssues, KeywordsIn(recent), recent, recent)
            /\ TiesInDiscoveryOrder(result.topPositiveKeywords, lists)
            /\ TiesInDiscoveryOrder(result.topNegativeKeywords, lists)

\* the keywords of the reviews whose sentiment is exactly label
Eligible(label, lists, labels) ==
    KeywordsIn(ListsOf(lists, { i \in DOMAIN labels : labels[i] = label }))

\* table holds the at most 10 eligible keywords of highest global count,
\* each with its count over all reviews
SentimentTableOk(table, label, lists, labels) ==
    LET eligible == Eligible(label, lists, labels)
    IN  /\ Len(table) <= 10
        /\ Len(table) = Min(10, Cardinality(eligible))
        /\ \A x, y \in DOMAIN table : table[x][1] = table[y][1] => x = y
        /\ \A e \in DOMAIN table :
               /\ table[e][1] \in eligible
               /\ table[e][2] = OccurrencesIn(table[e][1], lists)
        /\ NoneLeftOutCountsMore(table, eligible, lists)

\* C8: topPositiveKeywords (topNegativeKeywords) holds at most 10 keywords,
\* all of them keywords of a review whose sentiment is exactly positive
\* (negative), chosen by and reported with their count over all reviews.
C8_SentimentTables ==
    Reported =>
        LET lists == KeywordLists(reviews)
            labels == Sentiments(reviews)
        IN  /\ SentimentTableOk(result.topPositiveKeywords, "positive", lists, labels)
            /\ SentimentTableOk(result.topNegativeKeywords, "negative", lists, labels)

\* a report with a keyword in both tables, a full positive table, and a
\* keyword of a somewhat positive review that is in neither
C8_Witness ==
    /\ Reported
    /\ KeysOf(result.topPositiveKeywords) \cap KeysOf(result.topNegativeKeywords) # {}
    /\ Len(result.topPositiveKeywords) = 10
    /\ LET lists == KeywordLists(reviews)
           labels == Sentiments(reviews)
       IN  Eligible("somewhat positive", lists, labels)
               \ (KeysOf(result.topPositiveKeywords) \cup KeysOf(result.topNegativeKeywords))
           # {}

\* table holds the at most 10 keywords of highest count of the recent
\* negative reviews, each with its count over those reviews
RecentTableOk(table, lists, labels) ==
    LET recent == ListsOf(lists, RecentNegative(labels))
    IN  /\ Len(lists) = Len(reviews) /\ Len(labels) = Len(reviews)
        /\ Len(recent) = Len(reviews)
        /\ Len(table) <= 10
        /\ Len(table) = Min(10, Cardinality(KeywordsIn(recent)))
        /\ \A e \in DOMAIN table :
               table[e][2] = OccurrencesIn(table[e][1], recent)
        /\ NoneLeftOutCountsMore(table, KeywordsIn(recent), recent)

\* C9: recentIssues counts the keywords of exactly the reviews that are dated
\* within the 7 days before the processing time and are negative or somewhat
\* negative, and holds at most 10 of them, those of highest count.
C9_RecentIssues ==
    Reported =>
        RecentTableOk(result.recentIssues, KeywordLists(reviews), Sentiments(reviews))

\* a report on a negative review dated 10 days ago, whose keywords are left
\* out, and a negative review dated 2 days ago, whose keywords are counted
C9_Witness ==
    /\ Reported
    /\ LET lists == KeywordLists(reviews)
           labels == Sentiments(reviews)
       IN  \E i, j \in DOMAIN reviews :
               /\ labels[i] = "negative" /\ labels[j] = "negative"
               /\ DateOf(i).present /\ now - DateOf(i).day = 10
               /\ DateOf(j).present /\ now - DateOf(j).day = 2
               /\ Range(lists[j]) \subseteq KeysOf(result.recentIssues)
               /\ Range(lists[i]) \cap KeysOf(result.recentIssues) = {}
               /\ lists[i] # <<>>

\* some keyword of some review has one of the trigger terms as a substring
Triggered(triggers, lists) ==
    \E kw \in KeywordsIn(lists) : \E w \in DOMAIN triggers :
        \E a, b \in DOMAIN kw : SubSeq(kw, a, b) = triggers[w]

ThemeNames == << "Stability Issues", "Pricing Concerns", "User Experience" >>

\* C10: a theme is listed iff a keyword of some review contains one of its
\* trigger terms, whether or not that keyword is among the top 20; the
\* themes are listed once each, in the order Stability, Pricing, User
\* Experience.
C10_Themes ==
    Reported =>
        LET lists == KeywordLists(reviews)
            themes == result.commonThemes
        IN  /\ ("Stability Issues" \in Range(themes)) <=> Triggered(bugKeywords, lists)
            /\ ("Pricing Concerns" \in Range(themes)) <=> Triggered(pricingKeywords, lists)
            /\ ("User Experience" \in Range(themes)) <=> Triggered(uxKeywords, lists)
            /\ Len(themes) <= 3
            /\ \A x, y \in DOMAIN themes :
                   x < y => \E a, b \in DOMAIN ThemeNames :
                                a < b /\ ThemeNames[a] = themes[x] /\ ThemeNames[b] = themes[y]

\* a report with the Stability theme whose 20 reported keywords hold no
\* Stability trigger
C10_Witness ==
    /\ Reported
    /\ "Stability Issues" \in Range(result.commonThemes)
    /\ Len(result.keywordFrequency) = 20
    /\ ~Triggered(bugKeywords, << ObjectKeys(result.keywordFrequency) >>)


\* ------------------------------------------------------------------------
\* The empty collection
\* ------------------------------------------------------------------------
\* the analysis of a collection without reviews has returned
EmptyAnalysed == pc = "done" /\ reviews = <<>>

\* everything of the degenerate report but its rating distribution
EmptyReportTables ==
    /\ result.kind = "report"
    /\ result.totalReviewsAnalyzed = 0
    /\ DOMAIN result.sentimentBreakdown = Labels
    /\ \A l \in Labels : result.sentimentBreakdown[l] = 0
    /\ result.keywordFrequency = <<>>
    /\ result.recentIssues = <<>>
    /\ result.topPositiveKeywords = <<>>
    /\ result.topNegativeKeywords = <<>>
    /\ result.commonThemes = <<>>

\* C11 as stated: for an empty review collection the result is a report with
\* totalReviewsAnalyzed = 0, the five sentiment percentages present and 0,
\* empty keyword, recent-issue, top-positive and top-negative tables, an
\* empty theme list, and a rating distribution table without any entry
C11_EmptyReportNoBuckets ==
    EmptyAnalysed =>
        /\ EmptyReportTables
        /\ DOMAIN result.ratingDistribution = {}

\* C11: for an empty review collection the result is a report with
\* totalReviewsAnalyzed = 0, the five sentiment percentages present and 0,
\* empty keyword, recent-issue, top-positive and top-negative tables, an
\* empty theme list, and a rating distribution whose five buckets 1..5 are
\* all present with count 0
C11_EmptyReport ==
    EmptyAnalysed =>
        /\ EmptyReportTables
        /\ DOMAIN result.ratingDistribution = 1..5
        /\ \A b \in 1..5 : result.ratingDistribution[b] = 0

\* the report of an empty collection has been returned
C11_Witness ==
    /\ EmptyAnalysed
    /\ result.kind = "report"
    /\ result.totalReviewsAnalyzed = 0

\* ------------------------------------------------------------------------
\* Reviews with missing fields
\* ------------------------------------------------------------------------
\* the canonical form of the i-th review of the collection
Canonical(i) == ProcessReview(platform, reviews[i])

\* the text of the i-th review is absent or empty
TextMissing(i) == ~reviews[i].text.present \/ Len(reviews[i].text.chars) = 0

\* the reviews of the collection that have a text
WithText == { i \in DOMAIN reviews : ~TextMissing(i) }

\* C12: a review whose text is absent or empty is normalized to sentiment
\* neutral with no keywords, the score of a review (absent or not) is passed
\* through unchanged, and the analysis of every collection of such reviews
\* ends in a report, never in the error result: one that counts every
\* review, counts the text-less ones as neutral and takes its keywords from
\* the other reviews only
C12_MalformedNeverRaises ==
    pc = "done" =>
        /\ result.kind = "report"
        /\ result.totalReviewsAnalyzed = Len(reviews)
        /\ \A i \in DOMAIN reviews :
               /\ Canonical(i).score = reviews[i].score
               /\ TextMissing(i) =>
                      /\ Canonical(i).sentiment = "neutral"
                      /\ Canonical(i).keywords = <<>>
        /\ WithText = {} =>
               /\ reviews # <<>> => result.sentimentBreakdown["neutral"] = 10000
               /\ result.keywordFrequency = <<>>
               /\ result.commonThemes = <<>>
               /\ result.recentIssues = <<>>

\* a report on a collection that holds a review without text and score, a
\* review with an empty text, and a review with a text but no score
C12_Witness ==
    /\ pc = "done"
    /\ result.kind = "report"
    /\ \E i, j, k \in DOMAIN reviews :
           /\ ~reviews[i].text.present /\ reviews[i].score.kind = "undefined"
           /\ reviews[j].text.present /\ reviews[j].text.chars = <<>>
           /\ ~TextMissing(k) /\ reviews[k].score.kind = "undefined"

\* ------------------------------------------------------------------------
\* Failures of the fetch
\* ------------------------------------------------------------------------
\* a request of the fetch is rejected in this step
FetchFails == AndroidFetchFail \/ IosLookupFail \/ IosPageFail

\* the invocation has returned the error result
ErrorReturned ==
    /\ pc = "done"
    /\ result.kind = "error"
    /\ result.isError
    /\ result.platform = platform

\* C13: every failure of the review fetch (the android request, the ios
\* app-id lookup, any ios page request) ends the invocation with the error
\* result (isError, with the platform) and not with a report, and an
\* invocation that has returned has returned exactly one of report and
\* error result
C13_FetchFailureIsError ==
    [][ /\ FetchFails => ErrorReturned'
        /\ pc' = "done" => result'.kind \in {"report", "error"} ]_vars

\* ------------------------------------------------------------------------
\* The fetch loop
\* ------------------------------------------------------------------------
\* a request of the fetch is awaited
Fetching == pc \in {"androidFetch", "iosLookup", "iosPage"}

\* the first n elements of a sequence, all of it when it is shorter
Prefix(s, n) == [i \in 1..(IF n < Len(s) THEN n ELSE Len(s)) |-> s[i]]

\* the states of the fetch: requests are made for pages 1..10 only and only
\* while fewer than num reviews are collected; the collected reviews are in
\* the order the store delivered them; nothing is analysed while a request
\* is awaited; the analysis gets the first num collected reviews, and the
\* android request asks for min(num, 1000)
FetchStateOk ==
    /\ pc \in {"iosLookup", "iosPage"} =>
           /\ platform = "ios"
           /\ page \in 1..10
           /\ Len(allReviews) < num
    /\ \A i \in DOMAIN allReviews : allReviews[i].id = i
    /\ Len(allReviews) >= page - 1
    /\ Fetching => result.kind = "none" /\ reviews = <<>>
    /\ pc = "androidFetch" =>
           /\ platform = "android"
           /\ requested <= num /\ requested <= 1000
           /\ requested = num \/ requested = 1000
    /\ pc = "done" /\ platform = "ios" =>
           /\ page \in 1..11
           /\ reviews = Prefix(allReviews, num)
           /\ Len(reviews) <= num
    /\ pc = "done" /\ platform = "android" => Len(reviews) <= requested
    /\ pc = "done" /\ result.kind = "report" =>
           result.totalReviewsAnalyzed = Len(reviews)

\* the steps of the fetch: a page that arrives is appended and the page
\* number grows by one; the loop is left at an empty page, at a failed
\* request and as soon as num reviews are collected or page 10 is done;
\* once the analysis has returned, only the next invocation follows
FetchStepOk ==
    /\ pc = "iosPage" /\ pc' \in {"iosLookup", "iosPage"} =>
           /\ page' = page + 1
           /\ Len(allReviews') > Len(allReviews)
           /\ Prefix(allReviews', Len(allReviews)) = allReviews
    /\ pc = "iosPage" /\ allReviews' = allReviews => pc' = "done" /\ page' = page
    /\ pc = "iosPage" /\ (Len(allReviews') >= num \/ page = 10) => pc' = "done"
    /\ pc = "iosLookup" =>
           /\ pc' \in {"iosPage", "done"}
           /\ page' = page /\ allReviews' = allReviews
    /\ pc = "done" => pc' = "idle"

\* C14: the collection is finished before the analysis begins and the ios
\* loop cannot go on for ever: every request that settles either ends the
\* loop or raises the page number by one, and requests are made for the
\* pages 1..10 only; the loop stops at the first empty page, at the first
\* failed request or once num reviews are collected, keeps the reviews in
\* fetch order and hands at most num of them to the analysis; android
\* requests min(num, 1000)
C14_FetchLoopTerminates ==
    /\ []FetchStateOk
    /\ [][FetchStepOk]_vars

\* the ios loop has ended after its tenth page with fewer than num reviews
C14_Witness ==
    /\ pc = "done"
    /\ platform = "ios"
    /\ page = 11
    /\ Len(allReviews) >= 10
    /\ Len(allReviews) < num
    /\ reviews = allReviews
====
